---- MODULE Spec2Model ----
(***************************************************************************)
(* The report workflow of open_deep_research (TypeScript port): the parent *)
(* graph of src/server/graph/graph.ts, the section sub-graph of            *)
(* src/server/graph/section/graph.ts, the state channels of                *)
(* src/server/graph/state.ts and the configuration resolver, with the      *)
(* search utilities of src/server/graph/utils.ts, the HTTP request handler *)
(* and src/server/utils/postgresCheckpointer.ts.                           *)
(*                                                                         *)
(* A node's return value is a partial update keyed by channel name; the    *)
(* graph applies the entries whose key is a channel of its state and drops *)
(* the others.  Every channel of ReportState is declared without a reducer *)
(* (last value wins).  JavaScript values that may be absent are modelled   *)
(* by a default value plus membership of the channel name in `defined`.    *)
(***************************************************************************)
EXTENDS Integers, Sequences, FiniteSets, TLC

\* ------------------------------------------------------------- bounds
MaxSections == 2
MaxDepth == 2
MaxRejections == 1
MaxResults == 2

\* Upper limit on search_iterations explored by the model; the loop of the
\* code stays strictly below it for every configuration in DepthValues.
IterCap == MaxDepth + 2

\* ------------------------------------------------------------- inputs
Names == {"A", "B"}
PlanContents == {"p"}
Texts == {"", "x"}
Grades == {"pass", "fail"}
GeneratedQueries == <<"q1", "q2">>
FollowUpQueries == <<"f1">>
DepthValues == (-1)..MaxDepth
ResumeValues == {"true", "True", "TRUE", "more detail"}

NoSection == [name |-> "", research |-> FALSE, content |-> ""]
SectionValues == [name : Names, research : BOOLEAN, content : PlanContents]

RECURSIVE SeqsUpTo(_, _)
SeqsUpTo(S, n) ==
  IF n = 0 THEN {<<>>}
  ELSE LET shorter == SeqsUpTo(S, n - 1)
       IN shorter \cup {Append(s, x) : s \in {t \in shorter : Len(t) = n - 1}, x \in S}

Plans == SeqsUpTo(SectionValues, MaxSections)

\* ------------------------------------------------------------- state
VARIABLES
  configurable,                \* config.configurable given by the caller
  \* A Send carries the parent's `section` object and the steps assign to
  \* section.content in place.  Whether the task works on that very object or
  \* on a copy made when the state is handed over is not fixed by the source:
  \* both outcomes are explored.
  sharedRefs,
  \* Input of the invocation.  The request handler passes {topic}; the graph
  \* compiled and exported by graph.ts takes any update of ReportState, of
  \* which the model also explores {topic, completedSections: []}.
  input,
  node,                        \* position of the run in the parent graph
  defined,                     \* channels of ReportState that hold a value
  topic, feedbackOnReportPlan, sections, completedSections,
  reportSectionsFromResearch, finalReport,
  branch,                      \* Section Workflow instances, by plan index
  final,                       \* writeFinalSections tasks, by plan index
  rejections,                  \* number of non-approval resumes so far
  approved,                    \* an approving resume value has been received
  gatherRuns, compileRuns, finalReportWrites,
  resume,                      \* resume value handed over, until interrupt() returns it
  lastCall,                    \* what the last request to the HTTP handler did
  searchCall,                  \* last call of a function of utils.ts and its result
  faults                       \* which call of a service fails in this run

serviceVars == <<lastCall, searchCall>>

vars == <<resume, lastCall, searchCall, faults,
          configurable, sharedRefs, input, node, defined, topic,
          feedbackOnReportPlan, sections, completedSections,
          reportSectionsFromResearch, finalReport, branch, final,
          rejections, approved, gatherRuns, compileRuns, finalReportWrites>>

reportVars == <<topic, feedbackOnReportPlan, sections, completedSections,
                reportSectionsFromResearch, finalReport>>

\* ------------------------------------------------------------- configuration
DefaultMaxSearchDepth == 2

DefaultNumberOfQueries == 2
EmptyConfig == [k \in {} |-> 0]

\* the options of config.configurable that hold a string other than the
\* provider of the search, with their defaults
StringOptions ==
  {"report_structure", "planner_provider", "planner_model", "writer_provider",
   "writer_model"}
StringDefaults ==
  [report_structure |-> "DEFAULT_REPORT_STRUCTURE",
   planner_provider |-> "anthropic",
   planner_model |-> "claude-3-7-sonnet-latest",
   writer_provider |-> "anthropic",
   writer_model |-> "claude-3-5-sonnet-latest"]

\* config.configurable without any option: has_<option> tells whether the
\* caller supplied the option, an absent option has a zero value; `strings`
\* holds the options of StringOptions that the caller supplied
NoOptions ==
  [has_number_of_queries |-> FALSE, number_of_queries |-> 0,
   has_max_search_depth |-> FALSE, max_search_depth |-> 0,
   has_search_api |-> FALSE, search_api |-> "",
   has_search_api_config |-> FALSE, search_api_config |-> EmptyConfig,
   strings |-> EmptyConfig]

\* a || b: b when a is undefined or falsy (0 for a number, '' for a string;
\* an object, the empty one included, is truthy)
OrNumber(has, value, default) ==
  IF has /\ value # 0 THEN value ELSE default
OrString(has, value, default) ==
  IF has /\ value # "" THEN value ELSE default
OrObject(has, value, default) == IF has THEN value ELSE default

\* configurable.<option> of a string option, '' standing for undefined
StringOption(c, o) == IF o \in DOMAIN c.strings THEN c.strings[o] ELSE ""

ensureDeepResearchConfiguration(c) ==
  [report_structure |->
     OrString("report_structure" \in DOMAIN c.strings,
              StringOption(c, "report_structure"),
              StringDefaults["report_structure"]),
   number_of_queries |->
     OrNumber(c.has_number_of_queries, c.number_of_queries,
              DefaultNumberOfQueries),
   max_search_depth |->
     OrNumber(c.has_max_search_depth, c.max_search_depth,
              DefaultMaxSearchDepth),
   planner_provider |->
     OrString("planner_provider" \in DOMAIN c.strings,
              StringOption(c, "planner_provider"),
              StringDefaults["planner_provider"]),
   planner_model |->
     OrString("planner_model" \in DOMAIN c.strings,
              StringOption(c, "planner_model"),
              StringDefaults["planner_model"]),
   writer_provider |->
     OrString("writer_provider" \in DOMAIN c.strings,
              StringOption(c, "writer_provider"),
              StringDefaults["writer_provider"]),
   writer_model |->
     OrString("writer_model" \in DOMAIN c.strings,
              StringOption(c, "writer_model"),
              StringDefaults["writer_model"]),
   search_api |-> OrString(c.has_search_api, c.search_api, "tavily"),
   search_api_config |->
     OrObject(c.has_search_api_config, c.search_api_config, EmptyConfig)]

\* ------------------------------------------------------------- failing services
\* what generateReportPlan hands to the planner: the topic and the feedback
\* on the last plan (with the configuration and the sources found for the
\* topic, which are the same in every run of the model)
PlanRequest(t, f) == [topic |-> t, feedback |-> f]
PlanRequests == [topic : {"T"}, feedback : {"", "more detail"}]

\* plans a planner may answer with
StubPlans ==
  {<<[name |-> "A", research |-> TRUE, content |-> "p"]>>,
   <<[name |-> "B", research |-> FALSE, content |-> "p"]>>,
   <<[name |-> "A", research |-> TRUE, content |-> "p"],
     [name |-> "B", research |-> FALSE, content |-> "p"]>>}

\* a planner that may answer a request differently each time, and the
\* planners that answer equal requests equally
AnyPlanner == [fixed |-> FALSE, stub |-> <<>>]
DeterministicPlanners == [fixed : {TRUE}, stub : [PlanRequests -> StubPlans]]

\* the drafting service answers and no step throws
NoFaults ==
  [step |-> "none", at |-> 0, drafting |-> <<>>, planner |-> AnyPlanner]

\* the plans the planner can answer the request of (t, f) with
PlansOf(t, f) ==
  IF faults.planner.fixed THEN {faults.planner.stub[PlanRequest(t, f)]}
  ELSE Plans

\* the step `step` of the task with plan index i throws
Throws(step, i) == faults.step = step /\ faults.at = i

\* withRetry({stopAfterAttempt: 2}) around the call of the drafting service
StopAfterAttempt == 2

\* what the service does with the attempts of one call, TRUE for a failing
\* attempt; one attempt more than the retry makes is described
AttemptOutcomes == [1..(StopAfterAttempt + 1) -> BOOLEAN]
AllAnswer == [n \in 1..(StopAfterAttempt + 1) |-> FALSE]

\* attempt n and the ones after it: the first that answers ends the call,
\* a failing one is followed by another while fewer than stopAfterAttempt
\* were made, and the last failure is the failure of the call
RECURSIVE Retry(_, _, _)
Retry(failing, n, stopAfterAttempt) ==
  IF ~failing[n] THEN [ok |-> TRUE, attempts |-> n]
  ELSE IF n >= stopAfterAttempt THEN [ok |-> FALSE, attempts |-> n]
  ELSE Retry(failing, n + 1, stopAfterAttempt)

withRetryOnceMoreMutant(failing, stopAfterAttempt) ==
  Retry(failing, 1, stopAfterAttempt + 1)
withRetry(failing, stopAfterAttempt) == Retry(failing, 1, stopAfterAttempt)

\* the superstep of a fan-out is over when each of its tasks has returned or
\* thrown; only then are the writes applied and the edge followed
SettledFirstTaskMutant(tasks) ==
  \E i \in 1..MaxSections : tasks[i].pc \in {"END", "done", "failed"}
Settled(tasks) ==
  \A i \in 1..MaxSections : tasks[i].pc \in {"none", "END", "done", "failed"}

\* a task of the superstep threw: the engine rejects the invocation instead
\* of applying the writes and following the edge
SuperstepFailsIgnoredMutant(tasks) == FALSE
SuperstepFails(tasks) == \E i \in 1..MaxSections : tasks[i].pc = "failed"

\* ------------------------------------------------------------- channels
ReportStateChannels ==
  {"topic", "feedbackOnReportPlan", "sections", "completedSections",
   "reportSectionsFromResearch", "finalReport"}

\* Keys under which the steps return their results.
SectionOutputKey == "completed_sections"
GatherOutputKey == "report_sections_from_research"
CompileOutputKey == "finalReport"

\* feedback.toLowerCase() on the resume values of the model
toLowerCaseIdentityMutant(s) == s
toLowerCase(s) ==
  CASE s = "True" -> "true"
    [] s = "TRUE" -> "true"
    [] OTHER -> s

\* formatSections: one block per section, numbered from 1, in list order
formatSections(secs) ==
  [i \in 1..Len(secs) |->
     [index |-> i, name |-> secs[i].name, research |-> secs[i].research,
      content |-> secs[i].content]]

\* ------------------------------------------------------------- section workflow
EmptyBranch ==
  [pc |-> "none", topic |-> "", section |-> NoSection,
   attempts |-> 0, search_iterations |-> 0, search_queries |-> <<>>,
   source_str |-> <<>>, completed_sections |-> <<>>,
   grades |-> <<>>, runs |-> 0]

\* the input state a Send to buildSectionWithWebResearch carries
SectionInput(s, t) ==
  [EmptyBranch EXCEPT !.pc = "generateQueries", !.topic = t, !.section = s,
                      !.search_iterations = 0]

\* search_iterations after one pass through searchWeb
SearchIterationsAfterByTwoMutant(si, queries) == si + 2
SearchIterationsAfterMutant(si, queries) == si + Len(queries)
SearchIterationsAfter(si, queries) == si + 1

\* writeSection's test for publishing the section and going to END
PublishesNoDepthMutant(grade, si, depth) == grade = "pass"
PublishesStrictMutant(grade, si, depth) == grade = "pass" \/ si > depth
PublishesIgnoresPassMutant(grade, si, depth) == si >= depth
Publishes(grade, si, depth) == grade = "pass" \/ si >= depth

\* the section object as its holder in the parent sees it after a branch
\* wrote `content` into its own reference
WriteThrough(secs, i, text) ==
  IF sharedRefs THEN [secs EXCEPT ![i].content = text] ELSE secs

generateQueries(b) ==
  /\ node = "buildSectionWithWebResearch"
  /\ branch[b].pc = "generateQueries"
  /\ LET failing == IF Throws("generateQueries", b) THEN faults.drafting
                    ELSE AllAnswer
         result == withRetry(failing, StopAfterAttempt)
     IN IF result.ok
        THEN branch' = [branch EXCEPT ![b].pc = "searchWeb",
                                      ![b].attempts = result.attempts,
                                      ![b].search_queries = GeneratedQueries]
        ELSE branch' = [branch EXCEPT ![b].pc = "failed",
                                      ![b].attempts = result.attempts]
  /\ UNCHANGED <<faults, configurable, sharedRefs, input, resume, serviceVars,
                 node, defined, reportVars,
                 final, rejections, approved, gatherRuns, compileRuns,
                 finalReportWrites>>

searchWeb(b) ==
  /\ node = "buildSectionWithWebResearch"
  /\ branch[b].pc = "searchWeb"
  /\ branch[b].search_iterations < IterCap
  /\ IF Throws("searchWeb", b)
     THEN branch' = [branch EXCEPT ![b].pc = "failed"]
     ELSE branch' = [branch EXCEPT
            ![b].pc = "writeSection",
            ![b].source_str = <<"Sources">> \o branch[b].search_queries,
            ![b].search_iterations =
               SearchIterationsAfter(branch[b].search_iterations,
                                     branch[b].search_queries),
            ![b].runs = @ + 1]
  /\ UNCHANGED <<faults, configurable, sharedRefs, input, resume, serviceVars,
                 node, defined, reportVars,
                 final, rejections, approved, gatherRuns, compileRuns,
                 finalReportWrites>>

writeSection(b) ==
  /\ node = "buildSectionWithWebResearch"
  /\ branch[b].pc = "writeSection"
  /\ IF Throws("writeSection", b)
     THEN /\ branch' = [branch EXCEPT ![b].pc = "failed"]
          /\ UNCHANGED sections
     ELSE
     \E text \in Texts, grade \in Grades :
       LET section == [branch[b].section EXCEPT !.content = text]
           depth == ensureDeepResearchConfiguration(configurable).max_search_depth
       IN /\ sections' = WriteThrough(sections, b, text)
          /\ IF Publishes(grade, branch[b].search_iterations, depth)
             THEN branch' = [branch EXCEPT
                    ![b].pc = "END",
                    ![b].section = section,
                    ![b].completed_sections = <<section>>,
                    ![b].grades = Append(@, grade)]
             ELSE branch' = [branch EXCEPT
                    ![b].pc = "searchWeb",
                    ![b].section = section,
                    ![b].search_queries = FollowUpQueries,
                    ![b].grades = Append(@, grade)]
  /\ UNCHANGED <<faults, configurable, sharedRefs, input, resume, serviceVars,
                 node, defined, topic,
                 feedbackOnReportPlan, completedSections,
                 reportSectionsFromResearch, finalReport, final, rejections,
                 approved, gatherRuns, compileRuns, finalReportWrites>>

\* ------------------------------------------------------------- engine merge
\* the outputs of the finished tasks, in task order
RECURSIVE Outputs(_, _)
Outputs(tasks, n) ==
  IF n = 0 THEN <<>>
  ELSE IF tasks[n].pc \in {"END", "done"}
       THEN Append(Outputs(tasks, n - 1), tasks[n].completed_sections)
       ELSE Outputs(tasks, n - 1)

RECURSIVE Flatten(_)
Flatten(ss) == IF ss = <<>> THEN <<>> ELSE Head(ss) \o Flatten(Tail(ss))

\* value of a channel after the writes of one step under `key`: a key that is
\* no channel of ReportState is dropped, a channel keeps the value written
MergeUpdateKeepMutant(key, cur, writes) == cur
MergeUpdateConcatPlansMutant(key, cur, writes) ==
  IF key \in ReportStateChannels /\ writes # <<>>
  THEN IF key = "sections" THEN cur \o writes[Len(writes)]
       ELSE writes[Len(writes)]
  ELSE cur
MergeUpdate(key, cur, writes) ==
  IF key \in ReportStateChannels /\ writes # <<>>
  THEN writes[Len(writes)]
  ELSE cur

\* parent's completedSections after the tasks of a fan-out returned `writes`
\* under the key completed_sections
FanInCompletedAppendMutant(cur, writes) == cur \o Flatten(writes)
FanInCompleted(cur, writes) == MergeUpdate(SectionOutputKey, cur, writes)

DefinedAfter(key, writes) ==
  IF key \in ReportStateChannels /\ writes # <<>>
  THEN defined \cup {key}
  ELSE defined

\* a channel without reducer takes one value per step
InvalidUpdate(key, writes) == key \in ReportStateChannels /\ Len(writes) > 1

\* ------------------------------------------------------------- search utilities
\* enum SearchAPI
SearchAPI ==
  {"perplexity", "tavily", "exa", "arxiv", "pubmed", "linkup", "duckduckgo",
   "googlesearch"}

\* property names every JavaScript object inherits from Object.prototype
ObjectPrototypeKeys == {"constructor", "toString"}

\* values a caller can put into configurable.search_api: the enum's, a name
\* no provider has, and names that every object has as inherited properties
Providers == SearchAPI \cup {"bing"} \cup ObjectPrototypeKeys

SEARCH_API_PARAMS ==
  [api \in SearchAPI |->
     CASE api = "exa" -> {"max_characters", "num_results", "include_domains",
                          "exclude_domains", "subpages"}
       [] api = "arxiv" -> {"load_max_docs", "get_full_documents",
                            "load_all_available_meta"}
       [] api = "pubmed" -> {"top_k_results", "email", "api_key",
                             "doc_content_chars_max"}
       [] api = "linkup" -> {"depth"}
       [] OTHER -> {}]

ConfigKeys == {"depth", "bogus", "num_results"}
ConfigValues == {1, 3}
\* search_api_config objects: ensureDeepResearchConfiguration passes {} for
\* an absent one
Configs == UNION {[K -> ConfigValues] : K \in SUBSET ConfigKeys}

\* the result of a call: a value, or a thrown error
Returned(v) == [threw |-> FALSE, value |-> v]
Thrown == [threw |-> TRUE, value |-> EmptyConfig]

\* `searchAPI in SEARCH_API_PARAMS`: own and inherited property names
InParams(searchAPI) ==
  searchAPI \in DOMAIN SEARCH_API_PARAMS \/ searchAPI \in ObjectPrototypeKeys

\* An inherited property is no array: acceptedParams.includes is not a
\* function and the first key of the config throws a TypeError.
getSearchParams(searchAPI, searchAPIConfig) ==
  IF DOMAIN searchAPIConfig = {} THEN Returned(EmptyConfig)
  ELSE IF ~InParams(searchAPI) THEN Returned(EmptyConfig)
  ELSE IF searchAPI \notin DOMAIN SEARCH_API_PARAMS THEN Thrown
  ELSE LET acceptedParams == SEARCH_API_PARAMS[searchAPI]
       IN Returned([key \in {k \in DOMAIN searchAPIConfig : k \in acceptedParams}
                      |-> searchAPIConfig[key]])

\* Tavily search results and responses
Urls == {"u1", "u2"}
Contents == {"c1", "c2"}
SearchResults ==
  [title : {"t"}, url : Urls, content : Contents, hasRawContent : {TRUE},
   rawLength : {0}]
\* lengths of raw contents around the limit of 4000 tokens of 4 characters;
\* a result without raw content (absent or null) has none to measure
RawLengths == {0, 1, 4000, 15999, 16000, 16001, 20000}
RawSearchResults ==
  {r \in [title : {"t"}, url : Urls, content : {"c1"},
          hasRawContent : BOOLEAN, rawLength : RawLengths] :
     ~r.hasRawContent => r.rawLength = 0}
\* one response to one query, with results that carry raw content
RawServices ==
  {[fails |-> FALSE, replies |-> <<[hasResults |-> TRUE, results |-> rs]>>] :
     rs \in SeqsUpTo(RawSearchResults, MaxResults) \ {<<>>}}

SearchResponses ==
  {[hasResults |-> FALSE, results |-> <<>>]}
    \cup [hasResults : {TRUE}, results : SeqsUpTo(SearchResults, MaxResults)]

\* the results of every response that has some, in response order
RECURSIVE sourceListOf(_)
sourceListOf(searchResponses) ==
  IF searchResponses = <<>> THEN <<>>
  ELSE LET response == Head(searchResponses)
       IN (IF response.hasResults /\ Len(response.results) > 0
           THEN response.results ELSE <<>>)
          \o sourceListOf(Tail(searchResponses))

\* the sources whose url is not in uniqueURLS yet, in list order
RECURSIVE uniqueSources(_, _)
uniqueSources(sourceList, uniqueURLS) ==
  IF sourceList = <<>> THEN <<>>
  ELSE LET source == Head(sourceList)
       IN IF source.url \in uniqueURLS
          THEN uniqueSources(Tail(sourceList), uniqueURLS)
          ELSE <<source>>
               \o uniqueSources(Tail(sourceList), uniqueURLS \cup {source.url})

RECURSIVE uniqueSourcesKeepLast(_)
uniqueSourcesKeepLast(sourceList) ==
  IF sourceList = <<>> THEN <<>>
  ELSE LET source == Head(sourceList)
           rest == Tail(sourceList)
       IN IF \E k \in 1..Len(rest) : rest[k].url = source.url
          THEN uniqueSourcesKeepLast(rest)
          ELSE <<source>> \o uniqueSourcesKeepLast(rest)

deduplicateSourcesKeepLastMutant(searchResponses) ==
  uniqueSourcesKeepLast(sourceListOf(searchResponses))
deduplicateSources(searchResponses) ==
  uniqueSources(sourceListOf(searchResponses), {})

\* formatSource: the header and one block per source; the raw content is cut
\* to maxTokensPerSource * 4 characters and marked when it was longer.  A raw
\* content is represented by its length, an absent one has length 0.
CharsPerToken == 4
TavilyMaxTokensPerSource == 4000

NoText == [header |-> "", blocks |-> <<>>]

formatSourceTokensAsCharsMutant(sourceList, includeRawContent, maxTokensPerSource) ==
  [header |-> "Sources:",
   blocks |->
     [i \in 1..Len(sourceList) |->
        LET source == sourceList[i]
            rawLength == IF source.hasRawContent THEN source.rawLength ELSE 0
        IN [title |-> source.title, url |-> source.url,
            content |-> source.content,
            hasRaw |-> includeRawContent,
            limit |-> IF includeRawContent THEN maxTokensPerSource ELSE 0,
            rawKept |-> IF ~includeRawContent THEN 0
                        ELSE IF rawLength > maxTokensPerSource
                        THEN maxTokensPerSource
                        ELSE rawLength,
            truncated |-> includeRawContent /\ rawLength > maxTokensPerSource]]]
formatSource(sourceList, includeRawContent, maxTokensPerSource) ==
  [header |-> "Sources:",
   blocks |->
     [i \in 1..Len(sourceList) |->
        LET source == sourceList[i]
            charLimit == maxTokensPerSource * CharsPerToken
            rawLength == IF source.hasRawContent THEN source.rawLength ELSE 0
        IN [title |-> source.title, url |-> source.url,
            content |-> source.content,
            hasRaw |-> includeRawContent,
            limit |-> IF includeRawContent THEN maxTokensPerSource ELSE 0,
            rawKept |-> IF ~includeRawContent THEN 0
                        ELSE IF rawLength > charLimit THEN charLimit
                        ELSE rawLength,
            truncated |-> includeRawContent /\ rawLength > charLimit]]]

\* what the Tavily client does with the queries of one call: it fails, or
\* answers each query with a response
TavilyServices(queries) ==
  {[fails |-> TRUE, replies |-> <<>>]}
    \cup {[fails |-> FALSE, replies |-> r] :
            r \in {s \in SeqsUpTo(SearchResponses, Len(queries)) :
                     Len(s) = Len(queries)}}

\* Promise.all of one search per query; every error is caught and gives []
executeTavilySearch(queries, params, service) ==
  IF service.fails THEN <<>>
  ELSE [i \in 1..Len(queries) |-> service.replies[i]]

\* the outcome of a search call
NoError == [kind |-> "none", provider |-> ""]
NotImplemented(provider) ==
  [threw |-> TRUE,
   error |-> [kind |-> "not implemented yet", provider |-> provider],
   text |-> NoText]
SourceText(text) == [threw |-> FALSE, error |-> NoError, text |-> text]

executeExaSearchEmptyMutant(queries, params) == SourceText(NoText)
executeExaSearch(queries, params) == NotImplemented("Exa")
executePerplexitySearch(queries, params) == NotImplemented("Perplexity")
executeArxivSearch(queries, params) == NotImplemented("ArXiv")
executePubmedSearch(queries, params) == NotImplemented("PubMed")
executeLinkupSearch(queries, params) == NotImplemented("LinkUp")
executeDuckDuckGoSearch(queries, params) == NotImplemented("DuckDuckGo")
executeGoogleSearch(queries, params) == NotImplemented("Google")

\* the switch on searchAPI; `calls` lists the provider functions entered
Called(fn, outcome) ==
  [threw |-> outcome.threw, error |-> outcome.error, text |-> outcome.text,
   calls |-> <<fn>>]

selectAndExecuteSearch(searchAPI, queryList, searchParams, service) ==
  CASE searchAPI = "exa" ->
         Called("executeExaSearch", executeExaSearch(queryList, searchParams))
    [] searchAPI = "tavily" ->
         LET searchResults == executeTavilySearch(queryList, searchParams, service)
             deduplicatedResults == deduplicateSources(searchResults)
         IN Called("executeTavilySearch",
                   SourceText(formatSource(deduplicatedResults, TRUE,
                                           TavilyMaxTokensPerSource)))
    [] searchAPI = "perplexity" ->
         Called("executePerplexitySearch",
                executePerplexitySearch(queryList, searchParams))
    [] searchAPI = "arxiv" ->
         Called("executeArxivSearch", executeArxivSearch(queryList, searchParams))
    [] searchAPI = "pubmed" ->
         Called("executePubmedSearch", executePubmedSearch(queryList, searchParams))
    [] searchAPI = "linkup" ->
         Called("executeLinkupSearch", executeLinkupSearch(queryList, searchParams))
    [] searchAPI = "duckduckgo" ->
         Called("executeDuckDuckGoSearch",
                executeDuckDuckGoSearch(queryList, searchParams))
    [] searchAPI = "googlesearch" ->
         Called("executeGoogleSearch", executeGoogleSearch(queryList, searchParams))
    [] OTHER ->
         [threw |-> TRUE,
          error |-> [kind |-> "Unsupported search API", provider |-> searchAPI],
          text |-> NoText, calls |-> <<>>]

NoService == [fails |-> FALSE, replies |-> <<>>]

NoSearchCall ==
  [fn |-> "none", returned |-> FALSE, options |-> <<>>,
   configuration |-> <<>>,
   searchAPI |-> "", config |-> EmptyConfig, queries |-> <<>>,
   service |-> NoService, responses |-> <<>>, params |-> Returned(EmptyConfig),
   sources |-> <<>>,
   result |-> [threw |-> FALSE, error |-> NoError, text |-> NoText,
               calls |-> <<>>]]

\* ------------------------------------------------------------- request handler
\* a field of the request body: absent, a string, or a value of another type
Absent == [kind |-> "absent", value |-> ""]
NotAString == [kind |-> "other", value |-> ""]
Str(s) == [kind |-> "string", value |-> s]

Topics == {"T", "U"}
Sessions == {"s1", "s2"}
\* the thread whose checkpoint is the workflow state of the model
RunThread == "s1"
FeedBackValues == ResumeValues \cup {""}

Bodies ==
  [topic : {Str(t) : t \in Topics} \cup {Absent, NotAString},
   sessionId : {Str(s) : s \in Sessions} \cup {Absent},
   feedBack : {Str(f) : f \in FeedBackValues} \cup {Absent, NotAString}]

\* inputSchema.safeParse: topic and sessionId strings, feedBack an optional
\* string that defaults to ''
safeParseAcceptAllMutant(body) ==
  [success |-> TRUE,
   data |-> [topic |-> body.topic.value, sessionId |-> body.sessionId.value,
             feedBack |-> body.feedBack.value]]
safeParse(body) ==
  [success |-> /\ body.topic.kind = "string"
               /\ body.sessionId.kind = "string"
               /\ body.feedBack.kind \in {"string", "absent"},
   data |-> [topic |-> body.topic.value, sessionId |-> body.sessionId.value,
             feedBack |-> IF body.feedBack.kind = "absent" THEN ""
                          ELSE body.feedBack.value]]

\* what checkpointer.setup() does: it succeeds, or throws an error with a
\* code and a message (a list of words, empty for an error without message)
SetupSucceeds == [failed |-> FALSE, code |-> "", message |-> <<>>]
SetupOutcomes ==
  {SetupSucceeds,
   [failed |-> TRUE, code |-> "ECONNREFUSED",
    message |-> <<"connect", "ECONNREFUSED", "127.0.0.1:5432">>],
   \* every address of the host refused: an AggregateError, message ''
   [failed |-> TRUE, code |-> "ECONNREFUSED", message |-> <<>>],
   [failed |-> TRUE, code |-> "28P01",
    message |-> <<"password", "authentication", "failed">>],
   [failed |-> TRUE, code |-> "",
    message |-> <<"timeout", "exceeded", "when", "trying", "to", "connect">>]}

includes(message, word) == \E k \in 1..Len(message) : message[k] = word

postgresCheckpointer(setup) ==
  IF ~setup.failed
  THEN [threw |-> FALSE, statusCode |-> 0, checkpointer |-> TRUE]
  ELSE IF setup.message # <<>> /\ includes(setup.message, "ECONNREFUSED")
  THEN [threw |-> TRUE, statusCode |-> 503, checkpointer |-> FALSE]
  ELSE [threw |-> TRUE, statusCode |-> 500, checkpointer |-> FALSE]

\* feedBack.length > 0 ? new Command({resume: feedBack}) : {topic}
NoInput == [kind |-> "none", topic |-> "", resume |-> ""]
HandlerInputAlwaysFreshMutant(data) ==
  [kind |-> "fresh", topic |-> data.topic, resume |-> ""]
HandlerInput(data) ==
  IF Len(data.feedBack) > 0
  THEN [kind |-> "resume", topic |-> "", resume |-> data.feedBack]
  ELSE [kind |-> "fresh", topic |-> data.topic, resume |-> ""]

\* what the checkpoint of the thread holds when an invocation has ended: the
\* position of the run and the channels of ReportState
ThreadState ==
  [node |-> node, defined |-> defined, topic |-> topic,
   feedbackOnReportPlan |-> feedbackOnReportPlan, sections |-> sections,
   completedSections |-> completedSections,
   reportSectionsFromResearch |-> reportSectionsFromResearch,
   finalReport |-> finalReport]

\* `again` marks the request as a repetition of the one before it, `first`
\* is the state in which the invocation of that one ended
NoBody == [topic |-> Absent, sessionId |-> Absent, feedBack |-> Absent]
NoCall ==
  [pending |-> FALSE, handled |-> FALSE, body |-> NoBody, setup |-> SetupSucceeds,
   statusCode |-> 0, setupCalled |-> FALSE, checkpointer |-> FALSE,
   invoked |-> FALSE, thread_id |-> "", input |-> NoInput,
   again |-> FALSE, first |-> <<>>]

\* ------------------------------------------------------------- resume value
\* no resume value is waiting for interrupt()
NoResume == [pending |-> FALSE, value |-> ""]
\* new Command({resume: value}): the value interrupt() returns when the
\* suspended step is entered again
ResumedEmptyMutant(value) == [pending |-> TRUE, value |-> ""]
Resumed(value) == [pending |-> TRUE, value |-> value]

\* ------------------------------------------------------------- report workflow
NoTasks == [i \in 1..MaxSections |-> EmptyBranch]

EmptyFinal ==
  [pc |-> "none", section |-> NoSection, context |-> <<>>,
   hasContext |-> FALSE, completed_sections |-> <<>>]

NoFinals == [i \in 1..MaxSections |-> EmptyFinal]

Init ==
  /\ configurable \in
       {NoOptions}
       \cup {[NoOptions EXCEPT !.has_max_search_depth = TRUE,
                               !.max_search_depth = d] : d \in DepthValues}
  /\ faults = NoFaults
  /\ sharedRefs \in BOOLEAN
  /\ input \in [topic : {"T"}, hasCompletedSections : BOOLEAN]
  /\ node = "START"
  /\ defined = {}
  /\ topic = ""
  /\ feedbackOnReportPlan = ""
  /\ sections = <<>>
  /\ completedSections = <<>>
  /\ reportSectionsFromResearch = <<>>
  /\ finalReport = <<>>
  /\ branch = NoTasks
  /\ final = NoFinals
  /\ rejections = 0
  /\ approved = FALSE
  /\ gatherRuns = 0
  /\ compileRuns = 0
  /\ finalReportWrites = 0
  /\ resume = NoResume
  /\ lastCall = NoCall
  /\ searchCall = NoSearchCall

\* the edges of the builder
EdgeBackToPlanMutant(from) == "generateReportPlan"
Edge(from) ==
  CASE from = "START" -> "generateReportPlan"
    [] from = "generateReportPlan" -> "humanFeedback"
    [] from = "buildSectionWithWebResearch" -> "gatherCompletedSections"
    [] from = "gatherCompletedSections" -> "initiateFinalSectionWriting"
    [] from = "writeFinalSections" -> "compileFinalReport"
    [] from = "compileFinalReport" -> "END"

\* graph.invoke(input): the input's fields are written, the run enters START
Invoke ==
  /\ node = "START"
  /\ topic' = input.topic
  /\ defined' = {"topic"} \cup
        (IF input.hasCompletedSections THEN {"completedSections"} ELSE {})
  /\ completedSections' = <<>>
  /\ node' = "generateReportPlan"
  /\ UNCHANGED <<faults, configurable, sharedRefs, input, resume, serviceVars,
                 feedbackOnReportPlan,
                 sections, reportSectionsFromResearch, finalReport, branch,
                 final, rejections, approved, gatherRuns, compileRuns,
                 finalReportWrites>>

generateReportPlan ==
  /\ node = "generateReportPlan"
  /\ \E plan \in PlansOf(topic, feedbackOnReportPlan) :
       /\ sections' = MergeUpdate("sections", sections, <<plan>>)
       /\ defined' = DefinedAfter("sections", <<plan>>)
  /\ node' = Edge("generateReportPlan")
  /\ UNCHANGED <<faults, configurable, sharedRefs, input, resume, serviceVars,
                 topic, feedbackOnReportPlan,
                 completedSections, reportSectionsFromResearch, finalReport,
                 branch, final, rejections, approved, gatherRuns, compileRuns,
                 finalReportWrites>>

\* one Send to buildSectionWithWebResearch per research section of the plan
ScheduledEverySectionMutant(secs, t) ==
  [i \in 1..MaxSections |->
     IF i \in 1..Len(secs) THEN SectionInput(secs[i], t) ELSE EmptyBranch]
Scheduled(secs, t) ==
  [i \in 1..MaxSections |->
     IF i \in 1..Len(secs) /\ secs[i].research THEN SectionInput(secs[i], t)
     ELSE EmptyBranch]

\* humanFeedback's test of the value interrupt() returned
ApprovesNothingMutant(feedback) == FALSE
ApprovesAnythingMutant(feedback) == TRUE
Approves(feedback) == toLowerCase(feedback) = "true"

\* graph.invoke(new Command({resume: feedback})) on the suspended thread
Resume ==
  /\ node = "humanFeedback"
  /\ ~resume.pending
  /\ \E feedback \in ResumeValues :
       /\ Approves(feedback) \/ rejections < MaxRejections
       /\ resume' = Resumed(feedback)
  /\ UNCHANGED <<faults, configurable, sharedRefs, input, serviceVars, node, defined,
                 reportVars, branch, final, rejections, approved, gatherRuns,
                 compileRuns, finalReportWrites>>

\* the step re-entered with the resume value that interrupt() returns
humanFeedback ==
  /\ node = "humanFeedback"
  /\ resume.pending
  /\ resume' = NoResume
  /\ LET feedback == resume.value
     IN IF Approves(feedback)
        THEN LET sends == {i \in 1..Len(sections) : sections[i].research}
             IN /\ branch' = Scheduled(sections, topic)
                /\ node' = IF sends = {} THEN "END"
                           ELSE "buildSectionWithWebResearch"
                /\ approved' = TRUE
                /\ UNCHANGED <<feedbackOnReportPlan, defined, rejections>>
        ELSE /\ feedbackOnReportPlan' =
                  MergeUpdate("feedbackOnReportPlan", feedbackOnReportPlan,
                              <<feedback>>)
             /\ defined' = DefinedAfter("feedbackOnReportPlan", <<feedback>>)
             /\ node' = "generateReportPlan"
             /\ rejections' = rejections + 1
             /\ UNCHANGED <<branch, approved>>
  /\ UNCHANGED <<faults, configurable, sharedRefs, input, serviceVars, topic, sections,
                 completedSections, reportSectionsFromResearch, finalReport,
                 final, gatherRuns, compileRuns, finalReportWrites>>

\* all Section Workflows of the fan-out are at END: their outputs are applied
\* to the parent state and the edge to gatherCompletedSections is taken
FanInSections ==
  /\ node = "buildSectionWithWebResearch"
  /\ Settled(branch)
  /\ LET writes == Outputs(branch, MaxSections)
     IN IF SuperstepFails(branch) \/ InvalidUpdate(SectionOutputKey, writes)
        THEN /\ node' = "error"
             /\ UNCHANGED <<completedSections, defined>>
        ELSE /\ completedSections' =
                  FanInCompleted(completedSections, writes)
             /\ defined' = DefinedAfter(SectionOutputKey, writes)
             /\ node' = "gatherCompletedSections"
  /\ UNCHANGED <<faults, configurable, sharedRefs, input, resume, serviceVars,
                 topic, feedbackOnReportPlan,
                 sections, reportSectionsFromResearch, finalReport, branch,
                 final, rejections, approved, gatherRuns, compileRuns,
                 finalReportWrites>>

\* formatSections(state.completedSections) throws on an absent list
gatherCompletedSections ==
  /\ node = "gatherCompletedSections"
  /\ gatherRuns' = gatherRuns + 1
  /\ IF "completedSections" \notin defined
     THEN /\ node' = "error"
          /\ UNCHANGED <<reportSectionsFromResearch, defined>>
     ELSE LET out == formatSections(completedSections)
          IN /\ reportSectionsFromResearch' =
                  MergeUpdate(GatherOutputKey, reportSectionsFromResearch,
                              <<out>>)
             /\ defined' = DefinedAfter(GatherOutputKey, <<out>>)
             /\ node' = "initiateFinalSectionWriting"
  /\ UNCHANGED <<faults, configurable, sharedRefs, input, resume, serviceVars,
                 topic, feedbackOnReportPlan,
                 sections, completedSections, finalReport, branch, final,
                 rejections, approved, compileRuns, finalReportWrites>>

initiateFinalSectionWriting ==
  /\ node = "initiateFinalSectionWriting"
  /\ LET sends == {i \in 1..Len(sections) : ~sections[i].research}
     IN /\ final' = [i \in 1..MaxSections |->
                       IF i \in sends
                       THEN [EmptyFinal EXCEPT
                               !.pc = "ready",
                               !.section = sections[i],
                               !.context = reportSectionsFromResearch,
                               !.hasContext =
                                  "reportSectionsFromResearch" \in defined]
                       ELSE EmptyFinal]
        /\ node' = IF sends = {} THEN "END" ELSE "writeFinalSections"
  /\ UNCHANGED <<faults, configurable, sharedRefs, input, resume, serviceVars,
                 defined, reportVars, branch,
                 rejections, approved, gatherRuns, compileRuns,
                 finalReportWrites>>

writeFinalSections(i) ==
  /\ node = "writeFinalSections"
  /\ final[i].pc = "ready"
  /\ IF Throws("writeFinalSections", i)
     THEN /\ final' = [final EXCEPT ![i].pc = "failed"]
          /\ UNCHANGED sections
     ELSE
     \E text \in Texts :
       LET section == [final[i].section EXCEPT !.content = text]
       IN /\ sections' = WriteThrough(sections, i, text)
          /\ final' = [final EXCEPT ![i].pc = "done",
                                    ![i].section = section,
                                    ![i].completed_sections = <<section>>]
  /\ UNCHANGED <<faults, configurable, sharedRefs, input, resume, serviceVars,
                 node, defined, topic,
                 feedbackOnReportPlan, completedSections,
                 reportSectionsFromResearch, finalReport, branch, rejections,
                 approved, gatherRuns, compileRuns, finalReportWrites>>

FanInFinal ==
  /\ node = "writeFinalSections"
  /\ Settled(final)
  /\ LET writes == Outputs(final, MaxSections)
     IN IF SuperstepFails(final) \/ InvalidUpdate(SectionOutputKey, writes)
        THEN /\ node' = "error"
             /\ UNCHANGED <<completedSections, defined>>
        ELSE /\ completedSections' =
                  FanInCompleted(completedSections, writes)
             /\ defined' = DefinedAfter(SectionOutputKey, writes)
             /\ node' = "compileFinalReport"
  /\ UNCHANGED <<faults, configurable, sharedRefs, input, resume, serviceVars,
                 topic, feedbackOnReportPlan,
                 sections, reportSectionsFromResearch, finalReport, branch,
                 final, rejections, approved, gatherRuns, compileRuns,
                 finalReportWrites>>

\* content recorded for `name`: the last completed entry of that name wins
RECURSIVE Lookup(_, _)
Lookup(completed, name) ==
  IF completed = <<>> THEN ""
  ELSE LET last == completed[Len(completed)]
       IN IF last.name = name THEN last.content
          ELSE Lookup(SubSeq(completed, 1, Len(completed) - 1), name)

HasEntry(completed, name) == \E k \in 1..Len(completed) : completed[k].name = name

\* an inherited property is a built-in function; as a block of the report it
\* is rendered by Array.join as the function's source text
Inherited(name) == "function " \o name \o "() { [native code] }"

\* completedSections[name] on the object built from the completed entries:
\* the entry's content, else what an empty object inherits under that name,
\* else undefined (falsy, as the empty string)
Property(completed, name) ==
  IF HasEntry(completed, name) THEN Lookup(completed, name)
  ELSE IF name \in ObjectPrototypeKeys THEN Inherited(name)
  ELSE ""

\* the plan with every section whose completed content is non-empty updated
ReorderedArrivalMutant(secs, completed) == completed
Reordered(secs, completed) ==
  [i \in 1..Len(secs) |->
     IF Property(completed, secs[i].name) # ""
     THEN [secs[i] EXCEPT !.content = Property(completed, secs[i].name)]
     ELSE secs[i]]

\* Array.join: the blocks with the separator between neighbours; an empty
\* string contributes no character
RECURSIVE join(_, _)
join(blocks, sep) ==
  IF blocks = <<>> THEN <<>>
  ELSE IF Len(blocks) = 1 THEN (IF blocks[1] = "" THEN <<>> ELSE <<blocks[1]>>)
  ELSE join(SubSeq(blocks, 1, Len(blocks) - 1), sep) \o <<sep>>
       \o (IF blocks[Len(blocks)] = "" THEN <<>> ELSE <<blocks[Len(blocks)]>>)

\* iterating state.completedSections throws on an absent list
compileFinalReport ==
  /\ node = "compileFinalReport"
  /\ compileRuns' = compileRuns + 1
  /\ IF "completedSections" \notin defined
     THEN /\ node' = "error"
          /\ UNCHANGED <<sections, finalReport, defined, finalReportWrites>>
     ELSE LET ordered == Reordered(sections, completedSections)
              allSections == join([i \in 1..Len(ordered) |-> ordered[i].content],
                                  "\n\n")
          IN /\ sections' = IF sharedRefs THEN ordered ELSE sections
             /\ finalReport' = MergeUpdate(CompileOutputKey, finalReport,
                                           <<allSections>>)
             /\ defined' = DefinedAfter(CompileOutputKey, <<allSections>>)
             /\ finalReportWrites' = finalReportWrites + 1
             /\ node' = "END"
  /\ UNCHANGED <<faults, configurable, sharedRefs, input, resume, serviceVars,
                 topic, feedbackOnReportPlan,
                 completedSections, reportSectionsFromResearch, branch, final,
                 rejections, approved, gatherRuns>>

\* ------------------------------------------------------------- request handler
\* The request waiting in lastCall, with the outcome checkpointer.setup()
\* will have, is handled on a thread that is not running: the body is
\* validated, the checkpointer is set up, the graph is compiled and invoked
\* on thread sessionId.  An input {topic} on a suspended thread starts the
\* run again from START and drops the pending interrupt; a resume value on a
\* thread without pending interrupt moves nothing.  The workflow state of
\* the model is that of thread RunThread; requests for other threads leave
\* it alone.
handler ==
  /\ lastCall.pending
  /\ node \in {"START", "humanFeedback", "END", "error"}
  /\ ~resume.pending
  /\ LET body == lastCall.body
         setup == lastCall.setup
     IN
       LET parsedBody == safeParse(body)
           data == parsedBody.data
           created == postgresCheckpointer(setup)
           invokeInput == HandlerInput(data)
           rejected == [lastCall EXCEPT !.pending = FALSE, !.handled = TRUE,
                                        !.statusCode = 400]
       IN IF ~parsedBody.success
          THEN /\ lastCall' = rejected
               /\ UNCHANGED <<resume, input, node, defined, topic>>
          ELSE IF created.threw
          THEN /\ lastCall' = [rejected EXCEPT
                                 !.setupCalled = TRUE,
                                 !.statusCode = created.statusCode]
               /\ UNCHANGED <<resume, input, node, defined, topic>>
          ELSE /\ lastCall' = [rejected EXCEPT
                                 !.setupCalled = TRUE,
                                 !.statusCode = 0,
                                 !.checkpointer = created.checkpointer,
                                 !.invoked = TRUE,
                                 !.thread_id = data.sessionId,
                                 !.input = invokeInput]
               /\ IF data.sessionId # RunThread
                  THEN UNCHANGED <<resume, input, node, defined, topic>>
                  ELSE IF invokeInput.kind = "fresh"
                  THEN /\ input' = [topic |-> invokeInput.topic,
                                    hasCompletedSections |-> FALSE]
                       /\ topic' = invokeInput.topic
                       /\ defined' = defined \cup {"topic"}
                       /\ node' = "generateReportPlan"
                       /\ UNCHANGED resume
                  ELSE IF node = "humanFeedback"
                  THEN /\ resume' = Resumed(invokeInput.resume)
                       /\ UNCHANGED <<input, node, defined, topic>>
                  ELSE UNCHANGED <<resume, input, node, defined, topic>>
  /\ UNCHANGED <<faults, configurable, sharedRefs, searchCall, feedbackOnReportPlan,
                 sections, completedSections, reportSectionsFromResearch,
                 finalReport, branch, final, rejections, approved, gatherRuns,
                 compileRuns, finalReportWrites>>

\* ------------------------------------------------------------- calls of utils.ts
runVars == <<faults, configurable, sharedRefs, input, node, defined, reportVars,
             branch, final, rejections, approved, gatherRuns, compileRuns,
             finalReportWrites>>

\* the invocation has returned: the run is over or waits for a resume value
RunEnded ==
  \/ node \in {"END", "error"}
  \/ node = "humanFeedback" /\ ~resume.pending

\* the client sends the request it sent before once more, after the
\* invocation of the first has returned
Reinvoke ==
  /\ lastCall.handled
  /\ lastCall.invoked
  /\ ~lastCall.again
  /\ RunEnded
  /\ lastCall' = [NoCall EXCEPT !.pending = TRUE, !.body = lastCall.body,
                                !.setup = lastCall.setup, !.again = TRUE,
                                !.first = ThreadState]
  /\ UNCHANGED <<resume, searchCall, runVars>>

QueryLists == {<<>>, <<"q1">>, <<"q1", "q2">>}

\* the calls of the three functions with arguments from the input sets
SearchCalls(queryLists) ==
  {[NoSearchCall EXCEPT !.fn = "getSearchParams", !.searchAPI = searchAPI,
                        !.config = searchAPIConfig] :
     searchAPI \in Providers, searchAPIConfig \in Configs}
  \cup UNION {{[NoSearchCall EXCEPT !.fn = "deduplicateSources",
                                    !.responses = searchResponses] :
                 searchResponses \in SeqsUpTo(SearchResponses, Len(queries))} :
              queries \in queryLists}
  \cup UNION {{[NoSearchCall EXCEPT !.fn = "selectAndExecuteSearch",
                                    !.searchAPI = searchAPI,
                                    !.queries = queryList,
                                    !.service = service] :
                 service \in (IF searchAPI = "tavily"
                              THEN TavilyServices(queryList)
                              ELSE {NoService})} :
              searchAPI \in Providers, queryList \in queryLists}
  \cup {[NoSearchCall EXCEPT !.fn = "selectAndExecuteSearch",
                             !.searchAPI = "tavily",
                             !.queries = <<"q1">>,
                             !.service = service] : service \in RawServices}

\* values of config.configurable: each number absent, 0 or positive, the
\* provider absent, '' or a name, the provider's config absent, {} or with
\* an entry, and at most one of the other strings supplied, as '' or as text
SuppliedOptions ==
  {[has_number_of_queries |-> nq.has, number_of_queries |-> nq.value,
    has_max_search_depth |-> md.has, max_search_depth |-> md.value,
    has_search_api |-> api.has, search_api |-> api.value,
    has_search_api_config |-> cfg.has, search_api_config |-> cfg.value,
    strings |-> [o \in str.at |-> str.value]] :
     nq \in {[has |-> FALSE, value |-> 0]} \cup [has : {TRUE}, value : {0, 1, 3}],
     md \in {[has |-> FALSE, value |-> 0]} \cup [has : {TRUE}, value : {0, 1, 3}],
     api \in {[has |-> FALSE, value |-> ""]}
               \cup [has : {TRUE}, value : {"", "exa"}],
     cfg \in {[has |-> FALSE, value |-> EmptyConfig]}
               \cup [has : {TRUE}, value : {EmptyConfig, [depth |-> 1]}],
     str \in {[at |-> {}, value |-> ""]}
               \cup [at : {{o} : o \in StringOptions}, value : {"", "x"}]}

ConfigurationCalls ==
  {[NoSearchCall EXCEPT !.fn = "ensureDeepResearchConfiguration",
                        !.options = c] : c \in SuppliedOptions}

CallEnsureDeepResearchConfiguration ==
  /\ searchCall.fn = "ensureDeepResearchConfiguration"
  /\ ~searchCall.returned
  /\ searchCall' = [searchCall EXCEPT
                      !.returned = TRUE,
                      !.configuration =
                         ensureDeepResearchConfiguration(searchCall.options)]
  /\ UNCHANGED <<resume, lastCall, runVars>>

\* the calls wait in searchCall with their arguments; each returns once
CallGetSearchParams ==
  /\ searchCall.fn = "getSearchParams"
  /\ ~searchCall.returned
  /\ searchCall' = [searchCall EXCEPT
                      !.returned = TRUE,
                      !.params = getSearchParams(searchCall.searchAPI,
                                                 searchCall.config)]
  /\ UNCHANGED <<resume, lastCall, runVars>>

CallDeduplicateSources ==
  /\ searchCall.fn = "deduplicateSources"
  /\ ~searchCall.returned
  /\ searchCall' = [searchCall EXCEPT
                      !.returned = TRUE,
                      !.sources = deduplicateSources(searchCall.responses)]
  /\ UNCHANGED <<resume, lastCall, runVars>>

CallSelectAndExecuteSearch ==
  /\ searchCall.fn = "selectAndExecuteSearch"
  /\ ~searchCall.returned
  /\ searchCall' = [searchCall EXCEPT
                      !.returned = TRUE,
                      !.result = selectAndExecuteSearch(
                                    searchCall.searchAPI, searchCall.queries,
                                    searchCall.config, searchCall.service)]
  /\ UNCHANGED <<resume, lastCall, runVars>>

SectionStep(b) == generateQueries(b) \/ searchWeb(b) \/ writeSection(b)

Next ==
  \/ Invoke
  \/ generateReportPlan
  \/ Resume
  \/ humanFeedback
  \/ \E b \in 1..MaxSections : generateQueries(b)
  \/ \E b \in 1..MaxSections : searchWeb(b)
  \/ \E b \in 1..MaxSections : writeSection(b)
  \/ FanInSections
  \/ gatherCompletedSections
  \/ initiateFinalSectionWriting
  \/ \E i \in 1..MaxSections : writeFinalSections(i)
  \/ FanInFinal
  \/ compileFinalReport

Spec == Init /\ [][Next]_vars

\* The Section Workflows on their own: the states in which humanFeedback has
\* just approved a plan received through the request handler and scheduled
\* its research sections, and the steps of the sub-graph from there.  The
\* engine runs every scheduled step whose calls return, hence the fairness.
\* The tasks work on copies of their sections: no step of the sub-graph reads
\* the parent's list, so the shared-object outcome adds no behaviour of a task.
SectionInit ==
  /\ configurable \in
       {NoOptions}
       \cup {[NoOptions EXCEPT !.has_max_search_depth = TRUE,
                               !.max_search_depth = d] : d \in DepthValues}
  /\ faults = NoFaults
  /\ sharedRefs = FALSE
  /\ input = [topic |-> "T", hasCompletedSections |-> FALSE]
  /\ node = "buildSectionWithWebResearch"
  /\ defined = {"topic", "sections"}
  /\ topic = "T"
  /\ feedbackOnReportPlan = ""
  /\ sections \in {p \in Plans : \E i \in 1..Len(p) : p[i].research}
  /\ completedSections = <<>>
  /\ reportSectionsFromResearch = <<>>
  /\ finalReport = <<>>
  /\ branch = Scheduled(sections, topic)
  /\ final = NoFinals
  /\ rejections = 0
  /\ approved = TRUE
  /\ gatherRuns = 0
  /\ compileRuns = 0
  /\ finalReportWrites = 0
  /\ resume = NoResume
  /\ lastCall = NoCall
  /\ searchCall = NoSearchCall

SectionNext == \E b \in 1..MaxSections : SectionStep(b)

SectionFairSpec ==
  /\ SectionInit
  /\ [][SectionNext]_vars
  /\ \A b \in 1..MaxSections : WF_vars(SectionStep(b))

\* ------------------------------------------------------------- partial specifications
\* the caller of the request handler: default configuration, input {topic}
HandlerCaller ==
  /\ configurable = NoOptions
  /\ input = [topic |-> "T", hasCompletedSections |-> FALSE]

\* no task of a fan-out was scheduled, no later step has run
NothingScheduled ==
  /\ reportSectionsFromResearch = <<>>
  /\ finalReport = <<>>
  /\ branch = NoTasks
  /\ final = NoFinals
  /\ gatherRuns = 0
  /\ compileRuns = 0
  /\ finalReportWrites = 0

\* The request handler on its own: one request, with the outcome the set-up
\* of the checkpointer will have, reaches a thread that is new or suspended
\* at humanFeedback with a plan.
Requests ==
  {[NoCall EXCEPT !.pending = TRUE, !.body = body, !.setup = setup] :
     body \in Bodies, setup \in SetupOutcomes}

HandlerInit ==
  /\ HandlerCaller
  /\ NothingScheduled
  /\ faults = NoFaults
  /\ sharedRefs = FALSE
  /\ node \in {"START", "humanFeedback"}
  /\ sections \in (IF node = "START" THEN {<<>>} ELSE Plans)
  /\ defined = IF node = "START" THEN {} ELSE {"topic", "sections"}
  /\ topic = IF node = "START" THEN "" ELSE "T"
  /\ feedbackOnReportPlan = ""
  /\ completedSections = <<>>
  /\ rejections = 0
  /\ approved = FALSE
  /\ resume = NoResume
  /\ lastCall \in Requests
  /\ searchCall = NoSearchCall

HandlerNext == handler

HandlerSpec == HandlerInit /\ [][HandlerNext]_vars

\* Runs in which a service fails: an approved plan whose Section Workflows
\* were scheduled, and for the run one step of one task that throws, or one
\* generateQueries whose attempts to reach the drafting service fail as
\* described by `drafting`.
Faults ==
  {NoFaults}
    \cup {[NoFaults EXCEPT !.step = "generateQueries", !.at = i,
                           !.drafting = d] :
            i \in 1..MaxSections, d \in AttemptOutcomes}
    \cup {[NoFaults EXCEPT !.step = st, !.at = i] :
            st \in {"searchWeb", "writeSection", "writeFinalSections"},
            i \in 1..MaxSections}

FailInit ==
  /\ faults \in Faults
  /\ configurable = [NoOptions EXCEPT !.has_max_search_depth = TRUE,
                                      !.max_search_depth = 1]
  /\ sharedRefs = FALSE
  /\ input \in [topic : {"T"}, hasCompletedSections : BOOLEAN]
  /\ node = "buildSectionWithWebResearch"
  /\ defined = {"topic", "sections"} \cup
        (IF input.hasCompletedSections THEN {"completedSections"} ELSE {})
  /\ topic = "T"
  /\ feedbackOnReportPlan = ""
  /\ sections \in {p \in Plans : \E i \in 1..Len(p) : p[i].research}
  /\ completedSections = <<>>
  /\ reportSectionsFromResearch = <<>>
  /\ finalReport = <<>>
  /\ branch = Scheduled(sections, topic)
  /\ final = NoFinals
  /\ rejections = 0
  /\ approved = TRUE
  /\ gatherRuns = 0
  /\ compileRuns = 0
  /\ finalReportWrites = 0
  /\ resume = NoResume
  /\ lastCall = NoCall
  /\ searchCall = NoSearchCall

FailNext ==
  \/ \E b \in 1..MaxSections : generateQueries(b)
  \/ \E b \in 1..MaxSections : searchWeb(b)
  \/ \E b \in 1..MaxSections : writeSection(b)
  \/ FanInSections
  \/ gatherCompletedSections
  \/ initiateFinalSectionWriting
  \/ \E i \in 1..MaxSections : writeFinalSections(i)
  \/ FanInFinal
  \/ compileFinalReport

FailSpec == FailInit /\ [][FailNext]_vars

\* The same resume request sent twice to a thread that waits at humanFeedback
\* with the plan a deterministic planner made for the topic; the caller is
\* the request handler, so the run goes as far as it gets from {topic}.
ResumeRequests ==
  {[NoCall EXCEPT !.pending = TRUE,
                  !.body = [topic |-> Str("T"), sessionId |-> Str(RunThread),
                            feedBack |-> Str(f)]] : f \in ResumeValues}

IdemInit ==
  /\ HandlerCaller
  /\ NothingScheduled
  /\ faults \in {[NoFaults EXCEPT !.planner = pl] : pl \in DeterministicPlanners}
  /\ sharedRefs = FALSE
  /\ node = "humanFeedback"
  /\ topic = "T"
  /\ feedbackOnReportPlan = ""
  /\ sections = faults.planner.stub[PlanRequest(topic, feedbackOnReportPlan)]
  /\ defined = {"topic", "sections"}
  /\ completedSections = <<>>
  /\ rejections = 0
  /\ approved = FALSE
  /\ resume = NoResume
  /\ lastCall \in ResumeRequests
  /\ searchCall = NoSearchCall

IdemNext ==
  \/ handler
  \/ Reinvoke
  \/ humanFeedback
  \/ generateReportPlan
  \/ \E b \in 1..MaxSections : generateQueries(b)
  \/ \E b \in 1..MaxSections : searchWeb(b)
  \/ \E b \in 1..MaxSections : writeSection(b)
  \/ FanInSections
  \/ gatherCompletedSections

IdemSpec == IdemInit /\ [][IdemNext]_vars

\* The plan review on its own: planning, suspension, resume values and
\* humanFeedback.  The engine runs the step it has scheduled, and enters
\* humanFeedback again once a resume value has arrived, hence the fairness.
PlanNext == Invoke \/ generateReportPlan \/ Resume \/ humanFeedback

PlanFairSpec ==
  /\ Init
  /\ [][PlanNext]_vars
  /\ WF_vars(generateReportPlan)
  /\ WF_vars(humanFeedback)

\* A request that reaches a thread and the plan review it sets off: the
\* handler's invocation, humanFeedback with the resume value, and
\* generateReportPlan when the run gets there.
ResumeNext == handler \/ humanFeedback \/ generateReportPlan

ResumeSpec == HandlerInit /\ [][ResumeNext]_vars

\* The functions of utils.ts on their own, called with arguments drawn from
\* the input sets.
UtilInit ==
  /\ HandlerCaller
  /\ NothingScheduled
  /\ faults = NoFaults
  /\ sharedRefs = FALSE
  /\ node = "START"
  /\ sections = <<>>
  /\ defined = {}
  /\ topic = ""
  /\ feedbackOnReportPlan = ""
  /\ completedSections = <<>>
  /\ rejections = 0
  /\ approved = FALSE
  /\ resume = NoResume
  /\ lastCall = NoCall
  /\ searchCall \in SearchCalls(QueryLists) \cup ConfigurationCalls

UtilNext ==
  \/ CallEnsureDeepResearchConfiguration
  \/ CallGetSearchParams
  \/ CallDeduplicateSources
  \/ CallSelectAndExecuteSearch

UtilSpec == UtilInit /\ [][UtilNext]_vars

\* humanFeedback on its own: a run suspended at interrupt() with a plan, with
\* or without feedback from an earlier review, is resumed with a value; the
\* exported graph takes any string as resume value, the empty one included.
ReviewInit ==
  /\ HandlerCaller
  /\ NothingScheduled
  /\ faults = NoFaults
  /\ sharedRefs = FALSE
  /\ node = "humanFeedback"
  /\ sections \in Plans
  /\ topic \in Topics
  /\ feedbackOnReportPlan \in {"", "earlier feedback"}
  /\ defined = {"topic", "sections"}
       \cup (IF feedbackOnReportPlan = "" THEN {} ELSE {"feedbackOnReportPlan"})
  /\ completedSections = <<>>
  /\ rejections = IF feedbackOnReportPlan = "" THEN 0 ELSE 1
  /\ approved = FALSE
  /\ resume \in [pending : {TRUE}, value : FeedBackValues]
  /\ lastCall = NoCall
  /\ searchCall = NoSearchCall

ReviewNext == humanFeedback

ReviewSpec == ReviewInit /\ [][ReviewNext]_vars

\* compileFinalReport on its own: the step applied to a plan and a list of
\* completed sections in any order of arrival.
CompileTexts == Texts \cup {"y"}
CompletedValues == [name : Names, research : {TRUE}, content : CompileTexts]

\* plans as the planner model can return them: a section's name is any
\* string, one that Object.prototype also has included
CompilePlans ==
  SeqsUpTo([name : Names \cup {"constructor"}, research : {TRUE},
            content : PlanContents], MaxSections)

CompileInit ==
  /\ configurable = NoOptions
  /\ input = [topic |-> "T", hasCompletedSections |-> TRUE]
  /\ faults = NoFaults
  /\ sharedRefs \in BOOLEAN
  /\ node = "compileFinalReport"
  /\ sections \in Plans \cup CompilePlans
  /\ topic = "T"
  /\ feedbackOnReportPlan = ""
  /\ defined = {"topic", "sections", "completedSections"}
  /\ completedSections \in SeqsUpTo(CompletedValues, MaxSections)
  /\ reportSectionsFromResearch = <<>>
  /\ finalReport = <<>>
  /\ branch = NoTasks
  /\ final = NoFinals
  /\ rejections = 0
  /\ approved = TRUE
  /\ gatherRuns = 1
  /\ compileRuns = 0
  /\ finalReportWrites = 0
  /\ resume = NoResume
  /\ lastCall = NoCall
  /\ searchCall = NoSearchCall

CompileNext == compileFinalReport

CompileSpec == CompileInit /\ [][CompileNext]_vars

\* ------------------------------------------------------------- properties
Started == {b \in 1..MaxSections : branch[b].pc # "none"}
Depth == ensureDeepResearchConfiguration(configurable).max_search_depth
AllFail(b) == \A k \in 1..Len(branch[b].grades) : branch[b].grades[k] = "fail"
Research == {i \in 1..Len(sections) : sections[i].research}

\* C1: writeSection goes back to searchWeb, with the grader's follow-up
\* queries as search_queries, exactly when the grade is fail and
\* search_iterations < max_search_depth; otherwise it goes to END and puts
\* the section with the current draft into completed_sections, also when the
\* grade is fail.
C1_LoopOnlyOnFailBelowDepth ==
  [][\A b \in 1..MaxSections :
       (branch[b].pc = "writeSection" /\ branch'[b].pc # "writeSection") =>
         LET grade == branch'[b].grades[Len(branch'[b].grades)]
             loops == grade = "fail" /\ branch[b].search_iterations < Depth
         IN /\ (branch'[b].pc = "searchWeb") <=> loops
            /\ loops => /\ branch'[b].search_queries = FollowUpQueries
                        /\ branch'[b].completed_sections = <<>>
            /\ ~loops => /\ branch'[b].pc = "END"
                         /\ branch'[b].completed_sections = <<branch'[b].section>>]_vars

C1_Witness ==
  \E b \in 1..MaxSections :
    /\ branch[b].pc = "END"
    /\ Len(branch[b].grades) >= 2
    /\ AllFail(b)
    /\ branch[b].completed_sections = <<branch[b].section>>

\* C2: with a grader that always fails and max_search_depth = d >= 1, a
\* Section Workflow runs searchWeb exactly d times, then is at END with its
\* section emitted; searchWeb never runs a (d+1)-th time.
C2_AlwaysFailRunsDepthSearches ==
  \A b \in Started :
    (AllFail(b) /\ Depth >= 1) =>
      /\ branch[b].runs <= Depth
      /\ Len(branch[b].grades) = Depth => branch[b].pc = "END"
      /\ branch[b].pc = "END" =>
           /\ branch[b].runs = Depth
           /\ branch[b].completed_sections = <<branch[b].section>>

C2_Witness ==
  \E b \in Started :
    /\ Depth = 2
    /\ branch[b].pc = "END"
    /\ branch[b].grades = <<"fail", "fail">>
    /\ branch[b].runs = 2

\* C3: a pass on the first writeSection ends the Section Workflow after
\* exactly one searchWeb, whatever max_search_depth is.
C3_FirstPassOneSearch ==
  \A b \in Started :
    (Len(branch[b].grades) >= 1 /\ branch[b].grades[1] = "pass") =>
      /\ branch[b].pc = "END"
      /\ branch[b].runs = 1
      /\ branch[b].grades = <<"pass">>

C3_Witness ==
  \E b \in Started :
    /\ branch[b].grades = <<"pass">>
    /\ branch[b].pc = "END"
    /\ Depth = MaxDepth

\* C4: every started Section Workflow eventually reaches END, for every
\* sequence of verdicts and every resolved max_search_depth.
C4_SectionWorkflowTerminates ==
  \A b \in 1..MaxSections : (branch[b].pc # "none") ~> (branch[b].pc = "END")

C4_Witness ==
  \E b \in Started :
    /\ branch[b].pc = "END"
    /\ Depth = MaxDepth
    /\ Len(branch[b].grades) = MaxDepth
    /\ branch[b].grades[MaxDepth] = "pass"

\* C5: search_iterations is 0 when the workflow starts, grows by exactly 1
\* on each searchWeb, and is left alone by every other step.
C5_SearchIterationsCount ==
  [][\A b \in 1..MaxSections :
       /\ (branch[b].pc = "none" /\ branch'[b].pc # "none") =>
            branch'[b].search_iterations = 0
       /\ (branch[b].pc = "searchWeb" /\ branch'[b].pc = "writeSection") =>
            branch'[b].search_iterations = branch[b].search_iterations + 1
       /\ (branch[b].pc # "none"
           /\ ~(branch[b].pc = "searchWeb" /\ branch'[b].pc = "writeSection")) =>
            branch'[b].search_iterations = branch[b].search_iterations]_vars

C5_Witness ==
  \E b \in Started :
    /\ branch[b].search_iterations = 2
    /\ branch[b].runs = 2
    /\ branch[b].pc = "writeSection"

\* C6: after the fan-in of N >= 1 research sections with distinct names,
\* completedSections holds exactly N entries, one per research section name.
DistinctResearchNames ==
  \A i, j \in Research : i # j => sections[i].name # sections[j].name

C6_FanInHoldsEveryBranch ==
  (node = "gatherCompletedSections" /\ Research # {} /\ DistinctResearchNames) =>
    /\ "completedSections" \in defined
    /\ Len(completedSections) = Cardinality(Research)
    /\ {completedSections[k].name : k \in 1..Len(completedSections)}
         = {sections[i].name : i \in Research}

\* C7: with no research section in the approved plan no branch is scheduled,
\* completedSections stays empty and the run goes on to
\* gatherCompletedSections.
C7_NoResearchGoesToGather ==
  (approved /\ Research = {}) =>
    /\ Started = {}
    /\ completedSections = <<>>
    /\ (node = "gatherCompletedSections" \/ gatherRuns >= 1)

\* C8: each Section Workflow puts exactly one Section, with the content of
\* its last draft, into the parent's completedSections when it reaches END,
\* and nothing before.
EntriesOf(b) ==
  {k \in 1..Len(completedSections) : completedSections[k] = branch[b].section}

C8_OneEntryPerWorkflow ==
  /\ node = "buildSectionWithWebResearch" => completedSections = <<>>
  /\ node = "gatherCompletedSections" =>
       \A b \in Started : Cardinality(EntriesOf(b)) = 1

\* C9: completedSections never holds two entries of the same name.
C9_NoDuplicateNames ==
  \A i, j \in 1..Len(completedSections) :
    i # j => completedSections[i].name # completedSections[j].name

C9_Witness ==
  /\ node = "END"
  /\ compileRuns = 1
  /\ Len(sections) = 2
  /\ sections[1].name = sections[2].name
  /\ sections[1].research
  /\ ~sections[2].research

\* C10: finalReport is written at most once, by compileFinalReport only, and
\* only when every research section of the plan has an entry in
\* completedSections.
C10_FinalReportOnceAfterResearch ==
  /\ finalReportWrites <= 1
  /\ finalReportWrites <= compileRuns
  /\ "finalReport" \in defined =>
       /\ finalReportWrites = 1
       /\ \A i \in Research : HasEntry(completedSections, sections[i].name)

\* C11: compileFinalReport joins the section contents with a blank line
\* between them in the order of the plan's sections, whatever the order of
\* completedSections: with one completed entry of non-empty content per plan
\* section, block i of finalReport is the content completed for section i.
CompletedDistinct ==
  \A i, j \in 1..Len(completedSections) :
    i # j => completedSections[i].name # completedSections[j].name

CompletedContent(name) ==
  completedSections[CHOOSE k \in 1..Len(completedSections) :
                      completedSections[k].name = name].content

EveryPlanSectionCompleted ==
  \A i \in 1..Len(sections) :
    \E k \in 1..Len(completedSections) :
      /\ completedSections[k].name = sections[i].name
      /\ completedSections[k].content # ""

C11_ReportInPlanOrder ==
  (node = "END" /\ compileRuns = 1 /\ CompletedDistinct
   /\ EveryPlanSectionCompleted) =>
    LET n == Len(sections)
    IN /\ Len(finalReport) = IF n = 0 THEN 0 ELSE 2 * n - 1
       /\ \A i \in 1..n :
            finalReport[2 * i - 1] = CompletedContent(sections[i].name)
       /\ \A i \in 1..(n - 1) : finalReport[2 * i] = "\n\n"

C11_Witness ==
  /\ node = "END"
  /\ compileRuns = 1
  /\ Len(sections) = 2
  /\ sections[1].name = "A"
  /\ sections[2].name = "B"
  /\ Len(completedSections) = 2
  /\ completedSections[1].name = "B"
  /\ completedSections[1].content = "y"
  /\ completedSections[2].name = "A"
  /\ completedSections[2].content = "x"
  /\ finalReport = <<"x", "\n\n", "y">>

\* C12: a run whose non-empty plan was approved and that reached END without
\* a failing step has executed compileFinalReport and has finalReport set,
\* for plans whose sections all, none or partly require research.
C12_ApprovedRunEndsWithReport ==
  (node = "END" /\ approved /\ Len(sections) >= 1) =>
    /\ compileRuns = 1
    /\ "finalReport" \in defined

\* C13: humanFeedback approves exactly when the resume value is "true",
\* "True" or "TRUE"; every other string, the empty one included, becomes the
\* feedback on the plan.
ApprovingValues == {"true", "True", "TRUE"}

C13_ApprovalIffLowerCasedTrue ==
  [][(node = "humanFeedback" /\ resume.pending /\ ~approved) =>
       /\ approved' <=> resume.value \in ApprovingValues
       /\ approved' => feedbackOnReportPlan' = feedbackOnReportPlan
       /\ ~approved' => /\ feedbackOnReportPlan' = resume.value
                        /\ "feedbackOnReportPlan" \in defined']_vars

C13_Witness ==
  /\ node = "generateReportPlan"
  /\ ~approved
  /\ rejections >= 1
  /\ "feedbackOnReportPlan" \in defined
  /\ feedbackOnReportPlan = ""

\* C14: a resume value that does not approve sends the run from
\* humanFeedback back to generateReportPlan with feedbackOnReportPlan equal
\* to that string, and starts no Section Workflow.
C14_RejectionLoopsBackWithFeedback ==
  [][(node = "humanFeedback" /\ resume.pending
      /\ resume.value \notin ApprovingValues) =>
       /\ node' = "generateReportPlan"
       /\ feedbackOnReportPlan' = resume.value
       /\ Started = {}
       /\ \A b \in 1..MaxSections : branch'[b].pc = "none"]_vars

C14_Witness ==
  /\ node = "generateReportPlan"
  /\ feedbackOnReportPlan = "more detail"
  /\ rejections = 2
  /\ \E i \in 1..Len(sections) : sections[i].research
  /\ Started = {}

\* C15: the handler invokes the graph on thread sessionId with the input
\* {topic} when feedBack is absent or empty, which starts a run, and with
\* the feedBack string itself as resume value when it is non-empty, which
\* hands that string to the suspension pending on that thread.
C15_FreshRunOrResume ==
  [][(lastCall.pending /\ lastCall'.invoked) =>
       LET body == lastCall.body
           session == body.sessionId.value
           empty == body.feedBack.kind = "absent" \/ body.feedBack.value = ""
       IN /\ lastCall'.thread_id = session
          /\ empty =>
               /\ lastCall'.input = [kind |-> "fresh",
                                     topic |-> body.topic.value, resume |-> ""]
               /\ session = RunThread =>
                    /\ node' = "generateReportPlan"
                    /\ topic' = body.topic.value
                    /\ ~resume'.pending
          /\ ~empty =>
               /\ lastCall'.input = [kind |-> "resume", topic |-> "",
                                     resume |-> body.feedBack.value]
               /\ (session = RunThread /\ node = "humanFeedback") =>
                    /\ resume' = [pending |-> TRUE,
                                  value |-> body.feedBack.value]
                    /\ node' = "humanFeedback"
                    /\ topic' = topic
          /\ session # RunThread => UNCHANGED <<node, topic, resume>>]_vars

C15_Witness ==
  /\ lastCall.invoked
  /\ lastCall.thread_id = RunThread
  /\ lastCall.input.kind = "resume"
  /\ node = "humanFeedback"
  /\ resume = [pending |-> TRUE, value |-> "more detail"]

\* C16: a request whose body fails validation gets status 400; the
\* checkpointer is not set up, the graph is not invoked and the workflow
\* state stays as it was.
BodyInvalid(body) ==
  \/ body.topic.kind # "string"
  \/ body.sessionId.kind # "string"
  \/ body.feedBack.kind = "other"

C16_InvalidBodyRejected ==
  [][(lastCall.pending /\ ~lastCall'.pending /\ BodyInvalid(lastCall.body)) =>
       /\ lastCall'.statusCode = 400
       /\ ~lastCall'.setupCalled
       /\ ~lastCall'.checkpointer
       /\ ~lastCall'.invoked
       /\ UNCHANGED <<resume, runVars>>]_vars

C16_Witness ==
  /\ lastCall.handled
  /\ lastCall.statusCode = 400
  /\ lastCall.body.topic.kind = "string"
  /\ lastCall.body.sessionId.value = RunThread
  /\ lastCall.body.feedBack = NotAString
  /\ ~lastCall.setup.failed
  /\ node = "humanFeedback"

\* C17: when the set-up of the checkpointer fails, the handler's error has
\* status 503 if the connection to the store was refused and 500 for every
\* other failure, and no checkpointer is returned nor the graph invoked.
C17_SetupFailureStatus ==
  (lastCall.setupCalled /\ lastCall.setup.failed) =>
    /\ lastCall.setup.code = "ECONNREFUSED" => lastCall.statusCode = 503
    /\ lastCall.setup.code # "ECONNREFUSED" => lastCall.statusCode = 500
    /\ ~lastCall.checkpointer
    /\ ~lastCall.invoked

\* C18: getSearchParams returns the entries of the raw config whose keys
\* are in the provider's allow-list, with their values; a provider without
\* allow-list and an empty raw config give the empty config.
AllowList(searchAPI) ==
  IF searchAPI \in SearchAPI THEN SEARCH_API_PARAMS[searchAPI] ELSE {}

C18_ParamsFilteredByAllowList ==
  (searchCall.fn = "getSearchParams" /\ searchCall.returned) =>
    LET raw == searchCall.config
        kept == DOMAIN raw \cap AllowList(searchCall.searchAPI)
    IN /\ ~searchCall.params.threw
       /\ DOMAIN searchCall.params.value = kept
       /\ \A k \in kept : searchCall.params.value[k] = raw[k]

\* C19: deduplicateSources returns, of all results of all responses in
\* order, those that are the first with their URL, in that order: at most
\* one result per URL, the first seen.
AllResults == sourceListOf(searchCall.responses)

FirstSeen ==
  {i \in 1..Len(AllResults) :
     \A j \in 1..(i - 1) : AllResults[j].url # AllResults[i].url}

C19_FirstSeenPerUrl ==
  (searchCall.fn = "deduplicateSources" /\ searchCall.returned) =>
    /\ Len(searchCall.sources) = Cardinality(FirstSeen)
    /\ \A i \in FirstSeen :
         searchCall.sources[Cardinality({j \in FirstSeen : j <= i})]
           = AllResults[i]

C19_Witness ==
  /\ searchCall.fn = "deduplicateSources"
  /\ searchCall.returned
  /\ Len(AllResults) = 3
  /\ AllResults[1].url = "u2"
  /\ AllResults[2].url = "u1"
  /\ AllResults[3].url = "u2"
  /\ AllResults[3].content # AllResults[1].content
  /\ searchCall.sources = <<AllResults[1], AllResults[2]>>

\* C20: selectAndExecuteSearch with a provider other than Tavily throws an
\* error that names the provider, after at most one call of the provider's
\* function, and returns no source text.
ProviderNames ==
  [api \in SearchAPI \ {"tavily"} |->
     CASE api = "exa" -> "Exa"
       [] api = "perplexity" -> "Perplexity"
       [] api = "arxiv" -> "ArXiv"
       [] api = "pubmed" -> "PubMed"
       [] api = "linkup" -> "LinkUp"
       [] api = "duckduckgo" -> "DuckDuckGo"
       [] api = "googlesearch" -> "Google"]

C20_OtherProvidersFailLoudly ==
  (searchCall.fn = "selectAndExecuteSearch" /\ searchCall.returned
   /\ searchCall.searchAPI # "tavily") =>
    /\ searchCall.result.threw
    /\ searchCall.result.text = NoText
    /\ Len(searchCall.result.calls) <= 1
    /\ searchCall.result.error.provider =
         IF searchCall.searchAPI \in SearchAPI
         THEN ProviderNames[searchCall.searchAPI]
         ELSE searchCall.searchAPI

C20_Witness ==
  /\ searchCall.fn = "selectAndExecuteSearch"
  /\ searchCall.returned
  /\ searchCall.searchAPI = "exa"
  /\ searchCall.queries = <<"q1", "q2">>
  /\ searchCall.result.threw
  /\ searchCall.result.error.provider = "Exa"

\* C21: a failure of the search provider during a search propagates as an
\* error of the step that searched; the search does not return a source text
\* as if it had succeeded.
C21_SearchFailurePropagates ==
  (searchCall.fn = "selectAndExecuteSearch" /\ searchCall.returned
   /\ searchCall.service.fails) =>
    /\ searchCall.result.threw
    /\ searchCall.result.text = NoText

\* C26: for the Tavily provider the formatted text has one block per source
\* that includes the source's raw content cut to at most 16000 characters
\* (4000 tokens of 4 characters), marked as truncated exactly when it was
\* cut; a raw content of at most 16000 characters is included whole.
C26_RawContentCutAt16000 ==
  (searchCall.fn = "selectAndExecuteSearch" /\ searchCall.returned
   /\ searchCall.searchAPI = "tavily" /\ ~searchCall.service.fails) =>
    LET sourceList == deduplicateSources(searchCall.service.replies)
        blocks == searchCall.result.text.blocks
    IN /\ ~searchCall.result.threw
       /\ Len(blocks) = Len(sourceList)
       /\ \A i \in 1..Len(blocks) :
            LET length == IF sourceList[i].hasRawContent
                          THEN sourceList[i].rawLength ELSE 0
            IN /\ blocks[i].hasRaw
               /\ blocks[i].rawKept <= 16000
               /\ length <= 16000 =>
                    blocks[i].rawKept = length /\ ~blocks[i].truncated
               /\ length > 16000 =>
                    blocks[i].rawKept = 16000 /\ blocks[i].truncated

\* a Tavily search that returned a source of 16001 characters cut to 16000
\* and one of 16000 characters included whole
C26_Witness ==
  /\ searchCall.fn = "selectAndExecuteSearch"
  /\ searchCall.returned
  /\ searchCall.searchAPI = "tavily"
  /\ Len(searchCall.result.text.blocks) = 2
  /\ searchCall.service.replies[1].results[1].rawLength = 16001
  /\ searchCall.service.replies[1].results[2].rawLength = 16000
  /\ searchCall.result.text.blocks[1].rawKept = 16000
  /\ searchCall.result.text.blocks[1].truncated
  /\ searchCall.result.text.blocks[2].rawKept = 16000
  /\ ~searchCall.result.text.blocks[2].truncated

\* C29: on approval humanFeedback schedules one Section Workflow for each
\* section of the plan with research = true, whose input carries that
\* section, the topic and search_iterations = 0, and schedules none for a
\* section with research = false.
C29_OneWorkflowPerResearchSection ==
  [][(node = "humanFeedback" /\ resume.pending
      /\ resume.value \in ApprovingValues) =>
       \A i \in 1..MaxSections :
         IF i \in 1..Len(sections) /\ sections[i].research
         THEN /\ branch'[i].pc = "generateQueries"
              /\ branch'[i].section = sections[i]
              /\ branch'[i].topic = topic
              /\ branch'[i].search_iterations = 0
         ELSE branch'[i] = EmptyBranch]_vars

\* an approved plan of a research section and a section without research
C29_Witness ==
  /\ node = "buildSectionWithWebResearch"
  /\ approved
  /\ Len(sections) = 2
  /\ ~sections[1].research
  /\ sections[2].research
  /\ topic = "U"
  /\ branch[1] = EmptyBranch
  /\ branch[2].pc = "generateQueries"
  /\ branch[2].section = sections[2]
  /\ branch[2].topic = "U"

\* C28: a fresh invocation runs generateReportPlan and then waits at
\* humanFeedback for a resume value; as long as no resume value that approves
\* has been received, no Section Workflow, no writeFinalSections step and no
\* compileFinalReport has executed, and only a resume value that approves
\* ends that.
C28_NoSectionWorkBeforeApproval ==
  /\ [](~approved =>
          /\ node \in {"START", "generateReportPlan", "humanFeedback"}
          /\ branch = NoTasks
          /\ final = NoFinals
          /\ gatherRuns = 0
          /\ compileRuns = 0
          /\ finalReportWrites = 0)
  /\ [][/\ node = "START" => node' = "generateReportPlan"
        /\ node = "generateReportPlan" =>
             node' = "humanFeedback" /\ ~resume'.pending
        /\ (node = "humanFeedback" /\ ~resume.pending) =>
             node' = "humanFeedback"
        /\ (~approved /\ approved') =>
             /\ node = "humanFeedback"
             /\ resume.pending
             /\ resume.value \in ApprovingValues]_vars

\* a plan rejected once and then approved, with a Section Workflow at work
C28_Witness ==
  /\ approved
  /\ rejections = 1
  /\ node = "buildSectionWithWebResearch"
  /\ \E b \in 1..MaxSections : branch[b].pc = "writeSection"

\* C27: an invocation with a resume value on the thread suspended at
\* humanFeedback enters humanFeedback again with that value as the result of
\* interrupt() and with the sections saved at suspension; it does not run
\* generateReportPlan, which runs again only when humanFeedback rejects the
\* plan (or a fresh invocation starts the thread anew).
C27_ResumeReentersHumanFeedback ==
  [][/\ (/\ node = "humanFeedback"
         /\ lastCall.pending
         /\ lastCall'.invoked
         /\ lastCall'.thread_id = RunThread
         /\ lastCall.body.feedBack.kind = "string"
         /\ lastCall.body.feedBack.value # "") =>
          /\ node' = "humanFeedback"
          /\ sections' = sections
          /\ resume'.pending
          /\ resume'.value = lastCall.body.feedBack.value
     /\ (node = "humanFeedback" /\ node' = "generateReportPlan") =>
          \/ resume.pending /\ resume.value \notin ApprovingValues
          \/ lastCall.pending /\ lastCall.body.feedBack.value = ""
     /\ (node = "humanFeedback" /\ resume.pending) =>
          /\ resume.value = lastCall.input.resume
          /\ sections' = sections]_vars

\* a thread resumed with "True" whose plan of one research section was
\* approved
C27_Witness ==
  /\ lastCall.handled
  /\ lastCall.input.kind = "resume"
  /\ lastCall.input.resume = "True"
  /\ approved
  /\ node = "buildSectionWithWebResearch"
  /\ Len(sections) = 1
  /\ branch[1].section = sections[1]

C24_SuppliedValueOverDefault ==
  (searchCall.fn = "ensureDeepResearchConfiguration" /\ searchCall.returned) =>
    LET c == searchCall.options
        resolved == searchCall.configuration
    IN /\ resolved.number_of_queries =
            IF c.has_number_of_queries THEN c.number_of_queries ELSE 2
       /\ resolved.max_search_depth =
            IF c.has_max_search_depth THEN c.max_search_depth ELSE 2
       /\ resolved.search_api =
            IF c.has_search_api THEN c.search_api ELSE "tavily"
       /\ resolved.search_api_config =
            IF c.has_search_api_config THEN c.search_api_config
            ELSE EmptyConfig
       /\ \A o \in StringOptions :
            resolved[o] = IF o \in DOMAIN c.strings THEN c.strings[o]
                          ELSE StringDefaults[o]

\* C22: one execution of generateQueries calls the drafting service at most
\* 2 times: when the first attempt answers it is the only one, when it fails
\* a second attempt is made, an attempt that answers yields search_queries,
\* and when both fail the step fails without a third attempt and the
\* Section Workflow does not go on.
C22_AtMostTwoDraftingAttempts ==
  [][\A b \in 1..MaxSections :
       /\ (branch[b].pc = "generateQueries" /\ branch'[b] # branch[b]) =>
            LET failing == IF faults.step = "generateQueries" /\ faults.at = b
                           THEN faults.drafting
                           ELSE [n \in 1..3 |-> FALSE]
            IN /\ branch'[b].attempts \in {1, 2}
               /\ ~failing[1] =>
                    /\ branch'[b].attempts = 1
                    /\ branch'[b].pc = "searchWeb"
                    /\ branch'[b].search_queries = GeneratedQueries
               /\ (failing[1] /\ ~failing[2]) =>
                    /\ branch'[b].attempts = 2
                    /\ branch'[b].pc = "searchWeb"
                    /\ branch'[b].search_queries = GeneratedQueries
               /\ (failing[1] /\ failing[2]) =>
                    /\ branch'[b].attempts = 2
                    /\ branch'[b].pc = "failed"
                    /\ branch'[b].search_queries = <<>>
       /\ branch[b].pc = "failed" => branch'[b] = branch[b]]_vars

\* a generateQueries that failed after two attempts although a third attempt
\* would have been answered
C22_Witness ==
  \E b \in 1..MaxSections :
    /\ faults.step = "generateQueries"
    /\ faults.at = b
    /\ faults.drafting = <<TRUE, TRUE, FALSE>>
    /\ branch[b].pc = "failed"
    /\ branch[b].attempts = 2
    /\ branch[b].search_queries = <<>>

\* C23: when a task of a fan-out (a Section Workflow or a writeFinalSections
\* step) has failed, the invocation aborts: the step after the fan-out
\* (gatherCompletedSections, compileFinalReport) does not run without that
\* task's contribution and finalReport is not written.
C23_FailedBranchAbortsInvocation ==
  /\ []((\E b \in 1..MaxSections : branch[b].pc = "failed") =>
          /\ node \in {"buildSectionWithWebResearch", "error"}
          /\ gatherRuns = 0
          /\ compileRuns = 0
          /\ finalReportWrites = 0
          /\ finalReport = <<>>)
  /\ []((\E i \in 1..MaxSections : final[i].pc = "failed") =>
          /\ node \in {"writeFinalSections", "error"}
          /\ compileRuns = 0
          /\ finalReportWrites = 0
          /\ finalReport = <<>>)
  /\ [][((\E b \in 1..MaxSections : branch[b].pc = "failed")
         /\ node' # node) => node' = "error"]_vars
  /\ [][((\E i \in 1..MaxSections : final[i].pc = "failed")
         /\ node' # node) => node' = "error"]_vars

\* an invocation aborted by a writeFinalSections step that threw after the
\* research was gathered
C23_Witness ==
  /\ node = "error"
  /\ gatherRuns = 1
  /\ compileRuns = 0
  /\ \E i \in 1..MaxSections : final[i].pc = "failed"
  /\ \E b \in 1..MaxSections : branch[b].pc = "END"

\* C25: when the request with a resume value is sent to the thread twice,
\* with nothing in between, and the planner answers equal requests equally,
\* the state of the thread after the second invocation is the state after
\* the first.
C25_SameResumeSameFinalState ==
  (lastCall.again /\ lastCall.handled /\ lastCall.invoked /\ RunEnded) =>
    ThreadState = lastCall.first

\* the thread after two invocations with "more detail", each of which ran
\* generateReportPlan and suspended again
C25_Witness ==
  /\ lastCall.again
  /\ lastCall.handled
  /\ lastCall.invoked
  /\ lastCall.input.resume = "more detail"
  /\ RunEnded
  /\ node = "humanFeedback"
  /\ rejections = 2
  /\ feedbackOnReportPlan = "more detail"
  /\ lastCall.first.node = "humanFeedback"
  /\ lastCall.first.feedbackOnReportPlan = "more detail"

C32_FinalSectionsAppended ==
  node = "compileFinalReport" =>
    \A i \in 1..MaxSections :
      /\ final[i].pc = "done" <=>
           (i \in 1..Len(sections) /\ ~sections[i].research)
      /\ final[i].pc = "none" <=>
           ~(i \in 1..Len(sections) /\ ~sections[i].research)
      /\ final[i].pc = "done" =>
           \E k \in 1..Len(completedSections) :
             completedSections[k] = final[i].section

\* C33: the research context every writeFinalSections task receives is the
\* string gatherCompletedSections made of completedSections earlier in the
\* run, the formatting of the researched sections.
C33_FinalTasksReceiveGatheredContext ==
  node = "writeFinalSections" =>
    \A i \in 1..MaxSections :
      final[i].pc # "none" =>
        /\ final[i].hasContext
        /\ final[i].context = formatSections(completedSections)

\* C34: a step of a Section Workflow or of a writeFinalSections task changes
\* only that task: it leaves the tasks of its siblings and the parent's
\* state, the sections list included, as they are; the parent's state
\* changes at the fan-in only.
C34_BranchesAreIsolated ==
  [][(\/ \E b \in 1..MaxSections : branch'[b] # branch[b]
      \/ \E i \in 1..MaxSections : final'[i] # final[i]) =>
       \/ node = "humanFeedback"
       \/ node = "initiateFinalSectionWriting"
       \/ /\ sections' = sections
          /\ completedSections' = completedSections
          /\ reportSectionsFromResearch' = reportSectionsFromResearch
          /\ finalReport' = finalReport
          /\ Cardinality({b \in 1..MaxSections : branch'[b] # branch[b]}
                         \cup {i \in 1..MaxSections : final'[i] # final[i]})
               = 1]_vars


\* C35: in every state of a Section Workflow search_iterations is at least 0
\* and at most the larger of 1 and the resolved max_search_depth, and a
\* workflow that is at END has run searchWeb at least once.
C35_SearchIterationsBounded ==
  \A b \in Started :
    /\ 0 <= branch[b].search_iterations
    /\ branch[b].search_iterations <= (IF Depth > 1 THEN Depth ELSE 1)
    /\ branch[b].pc = "END" => branch[b].runs >= 1

C35_Witness ==
  \E b \in Started :
    /\ Depth = -1
    /\ branch[b].pc = "END"
    /\ branch[b].search_iterations = 1
    /\ branch[b].runs = 1
    /\ branch[b].grades = <<"fail">>


\* C36: the final report has one block per plan section, however many
\* completed entries there are: the content of the last completed entry of
\* the section's name when that content is not empty, the section's planned
\* content otherwise; completed entries of other names add nothing.
C36_Block(s) ==
  IF HasEntry(completedSections, s.name) /\ Lookup(completedSections, s.name) # ""
  THEN Lookup(completedSections, s.name)
  ELSE s.content

C36_OneBlockPerPlanSection ==
  [][(node = "compileFinalReport" /\ node' = "END") =>
       finalReport' =
         join([i \in 1..Len(sections) |-> C36_Block(sections[i])], "\n\n")]_vars


\* C37: a humanFeedback step that approves leaves every field of the report
\* state as it is; one that rejects changes feedbackOnReportPlan, to the
\* resume value, and no other field; and a step that gives the plan other
\* sections (their number, names or research flags) is a generateReportPlan
\* step.
C37_Outline(secs) ==
  [i \in 1..Len(secs) |-> <<secs[i].name, secs[i].research>>]

C37_HumanFeedbackFrame ==
  [][/\ (node = "humanFeedback" /\ resume.pending /\ ~resume'.pending) =>
          /\ topic' = topic
          /\ sections' = sections
          /\ completedSections' = completedSections
          /\ reportSectionsFromResearch' = reportSectionsFromResearch
          /\ finalReport' = finalReport
          /\ IF resume.value \in ApprovingValues
             THEN /\ feedbackOnReportPlan' = feedbackOnReportPlan
                  /\ defined' = defined
             ELSE /\ feedbackOnReportPlan' = resume.value
                  /\ defined' = defined \cup {"feedbackOnReportPlan"}
     /\ C37_Outline(sections') # C37_Outline(sections) =>
          node = "generateReportPlan"]_vars

C37_Witness ==
  /\ approved
  /\ rejections = 1
  /\ feedbackOnReportPlan = "more detail"
  /\ sections # <<>>
  /\ node = "buildSectionWithWebResearch"

====
